---- MODULE Spec2Model ----
(***************************************************************************)
(* A model of src/config_parser.c: the table-driven parser of              *)
(* configuration directives (parse_config), its captured-value stack, its  *)
(* state trail, the error reporter and the error recovery.                 *)
(*                                                                         *)
(* The input is a sequence of one-character strings; position Len(input)   *)
(* holds the terminating 0-byte.  The cursor `walk` is the offset          *)
(* walk - input of the C code.  C strings built by the parser are TLA+     *)
(* strings.                                                                *)
(***************************************************************************)
EXTENDS Integers, Sequences, FiniteSets, TLC

VARIABLES
    build,          \* "test": TEST_PARSER binary (main); "i3": parse_file
    grammar,        \* which generated token tables the binary was built with
    family,         \* which inputs the environment hands to the parser
    pc,             \* "start", "parsing", "returned", "exited", "assert", "undefined"
    input,          \* the buffer handed to parse_config
    walk,           \* walk - input
    linecnt,        \* the line counter of parse_config
    state,          \* static cmdp_state state
    stack,          \* static struct stack_entry stack[10]
    statelist,      \* static cmdp_state statelist[10]
    statelist_idx,  \* static int statelist_idx
    has_errors,     \* context->has_errors
    diags,          \* the records written to command_output.json_gen
    trace,          \* history: one record per main-loop iteration of this parse
    parses          \* history: how many times parse_config has been entered

vars == <<build, grammar, family, pc, input, walk, linecnt, state, stack, statelist,
          statelist_idx, has_errors, diags, trace, parses>>

----------------------------------------------------------------------------
(* Characters.                                                             *)

NUL == "NUL"        \* the terminating 0-byte (never part of an input)
OOB == "OOB"        \* what a read outside input[0..len] yields
LF == "\n"
CR == "\r"
TAB == "\t"
SP == " "
QUOTE == "\""
BACKSLASH == "\\"
NULL == "NULL"      \* the NULL pointer, for identifier and val.str

\* *(input + i)
Ch(inp, i) ==
    IF i < 0 \/ i > Len(inp) THEN OOB
    ELSE IF i = Len(inp) THEN NUL
    ELSE inp[i + 1]

UpperCase == <<"A","B","C","D","E","F","G","H","I","J","K","L","M",
               "N","O","P","Q","R","S","T","U","V","W","X","Y","Z">>
LowerCase == <<"a","b","c","d","e","f","g","h","i","j","k","l","m",
               "n","o","p","q","r","s","t","u","v","w","x","y","z">>

\* tolower(3), as strncasecmp applies it to both sides
ToLower(ch) ==
    IF \E i \in 1..Len(UpperCase) : UpperCase[i] = ch
    THEN LowerCase[CHOOSE i \in 1..Len(UpperCase) : UpperCase[i] = ch]
    ELSE ch

\* The C string made of the characters of a sequence.
RECURSIVE Str(_)
Str(cs) == IF cs = <<>> THEN "" ELSE cs[1] \o Str(Tail(cs))

----------------------------------------------------------------------------
(* The token descriptors (typedef struct token cmdp_token) and the         *)
(* generated tables.  GENERATED_config_enums.h, GENERATED_config_tokens.h  *)
(* and GENERATED_config_call.h are not part of src/: the tables below are  *)
(* written from the grammars of spec.md section 8.                         *)

__CALL == "__CALL"
NoCall == "-"

Tok(name, identifier, next, call) ==
    [name |-> name, identifier |-> identifier, next_state |-> next,
     call_identifier |-> call]

\* token->name of the reserved kinds
K_number == <<"n","u","m","b","e","r">>
K_string == <<"s","t","r","i","n","g">>
K_word == <<"w","o","r","d">>
K_line == <<"l","i","n","e">>
K_end == <<"e","n","d">>
K_error == <<"e","r","r","o","r">>

\* token->name of the literals: an apostrophe, then the spelling
L_workspace == <<"'","w","o","r","k","s","p","a","c","e">>
L_tags == <<"'","t","a","g","s">>
L_mode == <<"'","m","o","d","e">>
L_bindsym == <<"'","b","i","n","d","s","y","m">>
L_hash == <<"'","#">>
L_lbrace == <<"'","{">>
L_rbrace == <<"'","}">>
L_nest == <<"'","n">>
L_nums == <<"'","n","u","m","s">>
L_open == <<"'","o","p","e","n">>
L_keys == <<"'","k","e","y","s">>
L_bindcode == <<"'","b","i","n","d","c","o","d","e">>

ConfigStates == {"INITIAL", "IGNORE_LINE", "WORKSPACE", "TAGS", "TAGS2",
                 "MODENAME", "MODEBRACE", "MODE", "MODE_BINDING",
                 "MODE_BINDCOMMAND", "KEYS", "KEYNAME"}

\* spec.md section 8: S1 (workspace), S4 (tags), S5 (mode block with its own
\* <error>), with the `end` and `error` descriptors of INITIAL that S3 uses,
\* and S6 (KEYS, the state whose descriptors are 'bindsym', 'bindcode',
\* <word>, error).
ConfigTokens ==
    [s \in ConfigStates |->
       CASE s = "INITIAL" ->
              << Tok(K_end, NULL, "INITIAL", NoCall),
                 Tok(K_error, NULL, "INITIAL", NoCall),
                 Tok(L_hash, NULL, "IGNORE_LINE", NoCall),
                 Tok(L_workspace, NULL, "WORKSPACE", NoCall),
                 Tok(L_tags, NULL, "TAGS", NoCall),
                 Tok(L_mode, NULL, "MODENAME", NoCall),
                 Tok(L_keys, NULL, "KEYS", NoCall) >>
         [] s = "IGNORE_LINE" ->
              << Tok(K_line, NULL, "INITIAL", NoCall) >>
         [] s = "WORKSPACE" ->
              << Tok(K_number, "num", __CALL, "set_workspace") >>
         [] s = "TAGS" ->
              << Tok(K_word, "t", "TAGS2", NoCall) >>
         [] s = "TAGS2" ->
              << Tok(K_word, "t", __CALL, "tag") >>
         [] s = "MODENAME" ->
              << Tok(K_string, NULL, "MODEBRACE", NoCall) >>
         [] s = "MODEBRACE" ->
              << Tok(L_lbrace, NULL, "MODE", NoCall) >>
         [] s = "MODE" ->
              << Tok(K_end, NULL, "MODE", NoCall),
                 Tok(K_error, NULL, "MODE", NoCall),
                 Tok(L_bindsym, NULL, "MODE_BINDING", NoCall),
                 Tok(L_rbrace, NULL, "INITIAL", NoCall) >>
         [] s = "MODE_BINDING" ->
              << Tok(K_word, "key", "MODE_BINDCOMMAND", NoCall) >>
         [] s = "MODE_BINDCOMMAND" ->
              << Tok(K_string, "command", __CALL, "mode_binding") >>
         [] s = "KEYS" ->
              << Tok(L_bindsym, NULL, "KEYNAME", NoCall),
                 Tok(L_bindcode, NULL, "KEYNAME", NoCall),
                 Tok(K_word, NULL, "KEYNAME", NoCall),
                 Tok(K_error, NULL, "INITIAL", NoCall) >>
         [] s = "KEYNAME" ->
              << Tok(K_word, "key", __CALL, "bind") >> ]

\* spec.md section 8, S5 as it is worded: the <error> descriptor of MODE
\* "returns to INITIAL"; everything else is the config grammar.
BlockTokens ==
    [ConfigTokens EXCEPT !["MODE"] =
        << Tok(K_end, NULL, "MODE", NoCall),
           Tok(K_error, NULL, "INITIAL", NoCall),
           Tok(L_bindsym, NULL, "MODE_BINDING", NoCall),
           Tok(L_rbrace, NULL, "INITIAL", NoCall) >>]

\* A grammar with the two grammar bugs of spec.md section 7: a nesting of
\* more than ten distinct states, and a directive with more than ten
\* identified captures; and with a block directive `open <name> {` whose
\* brace may stand on the next line.
StressStates == {"INITIAL", "N1", "N2", "N3", "N4", "N5", "N6", "N7", "N8",
                 "N9", "N10", "NUMS", "OPENNAME", "OPENBRACE"}

NestAfter(s) ==
    CASE s = "INITIAL" -> "N1" [] s = "N1" -> "N2" [] s = "N2" -> "N3"
      [] s = "N3" -> "N4" [] s = "N4" -> "N5" [] s = "N5" -> "N6"
      [] s = "N6" -> "N7" [] s = "N7" -> "N8" [] s = "N8" -> "N9"
      [] s = "N9" -> "N10" [] OTHER -> "INITIAL"

StressTokens ==
    [s \in StressStates |->
       CASE s = "INITIAL" ->
              << Tok(K_end, NULL, "INITIAL", NoCall),
                 Tok(K_error, NULL, "INITIAL", NoCall),
                 Tok(L_nums, NULL, "NUMS", NoCall),
                 Tok(L_open, NULL, "OPENNAME", NoCall),
                 Tok(L_nest, NULL, "N1", NoCall) >>
         [] s = "NUMS" ->
              << Tok(K_number, "num", "NUMS", NoCall),
                 Tok(K_end, NULL, __CALL, "nums"),
                 Tok(K_word, "t", "NUMS", NoCall) >>
         [] s = "OPENNAME" ->
              << Tok(K_word, "name", "OPENBRACE", NoCall) >>
         [] s = "OPENBRACE" ->
              << Tok(K_end, NULL, "OPENBRACE", NoCall),
                 Tok(L_lbrace, NULL, __CALL, "open") >>
         [] OTHER ->
              << Tok(L_nest, NULL, NestAfter(s), NoCall),
                 Tok(L_rbrace, NULL, "INITIAL", NoCall) >> ]

\* tokens[state]
tokens(g, s) ==
    IF g = "config" THEN ConfigTokens[s]
    ELSE IF g = "block" THEN BlockTokens[s]
    ELSE StressTokens[s]

\* GENERATED_call: the state the handler leaves in result->next_state
CallNextState(call) ==
    CASE call = "mode_binding" -> "MODE"
      [] OTHER -> "INITIAL"

----------------------------------------------------------------------------
(* The captured-value stack.                                               *)

StackSize == 10
STACK_STR == 0
STACK_LONG == 1

Slots == 0..(StackSize - 1)

\* static storage: all bytes zero
EmptyStack ==
    [c \in Slots |-> [identifier |-> NULL, type |-> STACK_STR,
                      str |-> NULL, num |-> 0]]

\* The slot push_string stops at: the first one that is free or holds
\* `identifier`; StackSize when the loop runs off the end.
StringSlot(stk, identifier) ==
    IF \E c \in Slots : stk[c].identifier \in {NULL, identifier}
    THEN CHOOSE c \in Slots :
            /\ stk[c].identifier \in {NULL, identifier}
            /\ \A d \in 0..(c - 1) : stk[d].identifier \notin {NULL, identifier}
    ELSE StackSize

\* push_string storing every string in a slot of its own
PushStringNewSlot(stk, identifier, str) ==
    IF \A c \in Slots : stk[c].identifier # NULL
    THEN [stack |-> stk, full |-> TRUE, undefined |-> FALSE]
    ELSE LET c == CHOOSE c \in Slots :
                     /\ stk[c].identifier = NULL
                     /\ \A d \in 0..(c - 1) : stk[d].identifier # NULL
         IN  [stack |-> [stk EXCEPT ![c] = [identifier |-> identifier,
                                             type |-> STACK_STR,
                                             str |-> str, num |-> 0]],
              full |-> FALSE, undefined |-> FALSE]

\* push_string: [stack, full, undefined]; full means the call ended in
\* exit(1); undefined means it appended to a slot whose val holds a long,
\* reading val.str of the union as the string to print and to free.
push_string(stk, identifier, str) ==
    LET c == StringSlot(stk, identifier) IN
    IF c = StackSize THEN [stack |-> stk, full |-> TRUE, undefined |-> FALSE]
    ELSE IF stk[c].identifier = NULL
    THEN [stack |-> [stk EXCEPT ![c] = [identifier |-> identifier,
                                        type |-> STACK_STR,
                                        str |-> str, num |-> 0]],
          full |-> FALSE, undefined |-> FALSE]
    ELSE IF stk[c].type = STACK_LONG
    THEN [stack |-> stk, full |-> FALSE, undefined |-> TRUE]
    ELSE [stack |-> [stk EXCEPT ![c].str = (@ \o ",") \o str],
          full |-> FALSE, undefined |-> FALSE]

\* The slot push_long stops at: the first free one.
LongSlot(stk) ==
    IF \E c \in Slots : stk[c].identifier = NULL
    THEN CHOOSE c \in Slots :
            /\ stk[c].identifier = NULL
            /\ \A d \in 0..(c - 1) : stk[d].identifier # NULL
    ELSE StackSize

\* push_long storing into slot 0 whatever it holds
PushLongOverwrite(stk, identifier, num) ==
    [stack |-> [stk EXCEPT ![0] = [identifier |-> identifier,
                                   type |-> STACK_LONG,
                                   str |-> NULL, num |-> num]],
     full |-> FALSE, undefined |-> FALSE]

\* push_long: [stack, full, undefined]
push_long(stk, identifier, num) ==
    LET c == LongSlot(stk) IN
    IF c = StackSize THEN [stack |-> stk, full |-> TRUE, undefined |-> FALSE]
    ELSE [stack |-> [stk EXCEPT ![c] = [identifier |-> identifier,
                                        type |-> STACK_LONG,
                                        str |-> NULL, num |-> num]],
          full |-> FALSE, undefined |-> FALSE]

\* clear_stack passing over slot 0
ClearAllButFirst(stk) ==
    [c \in Slots |-> IF c = 0 THEN stk[c]
                     ELSE [identifier |-> NULL, type |-> stk[c].type,
                           str |-> NULL, num |-> 0]]

\* clear_stack doing nothing
ClearNothing(stk) == stk

\* clear_stack resetting slot 0 only
ClearFirstOnly(stk) ==
    [c \in Slots |-> IF c = 0
                     THEN [identifier |-> NULL, type |-> stk[c].type,
                           str |-> NULL, num |-> 0]
                     ELSE stk[c]]

\* clear_stack: identifier and val are reset, type is left as it is
clear_stack(stk) ==
    [c \in Slots |-> [identifier |-> NULL, type |-> stk[c].type,
                      str |-> NULL, num |-> 0]]

\* The slot at which the loop of get_string and get_long returns: the
\* first one holding `identifier` with no unused slot before it; StackSize
\* when the loop breaks at an unused slot or runs off the end.
LookupSlot(stk, identifier) ==
    IF \E c \in Slots :
          /\ stk[c].identifier = identifier
          /\ \A d \in 0..(c - 1) : stk[d].identifier \notin {NULL, identifier}
    THEN CHOOSE c \in Slots :
            /\ stk[c].identifier = identifier
            /\ \A d \in 0..(c - 1) : stk[d].identifier \notin {NULL, identifier}
    ELSE StackSize

\* a pointer that is neither NULL nor a string of the parser
INVALID == "INVALID"

\* the values a pointer can have when it is read as a long
PointerBits == {-2147483647, -1, 1, 2147483647}

\* get_string(identifier): the values the call can return, NULL for
\* absent.  It returns val.str whatever the slot's type is: of a slot that
\* holds a long this is the long read as a pointer, NULL when it is 0.
get_string(stk, identifier) ==
    LET c == LookupSlot(stk, identifier) IN
    IF c = StackSize THEN {NULL}
    ELSE IF stk[c].type = STACK_STR THEN {stk[c].str}
    ELSE IF stk[c].num = 0 THEN {NULL} ELSE {INVALID}

\* get_long(identifier): the values the call can return.  It returns
\* val.num whatever the slot's type is: of a slot that holds a string this
\* is the (non-null) pointer read as a long.
get_long(stk, identifier) ==
    LET c == LookupSlot(stk, identifier) IN
    IF c = StackSize THEN {0}
    ELSE IF stk[c].type = STACK_LONG THEN {stk[c].num}
    ELSE PointerBits

----------------------------------------------------------------------------
(* The state trail and next_state.                                         *)

StatelistSize == 10

TrailSlots == 0..(StatelistSize - 1)

\* static cmdp_state statelist[10] = { INITIAL }
InitialStatelist == [i \in TrailSlots |-> "INITIAL"]

\* the search of the trail finding nothing
TrailIndexNone(sl, idx, s) == idx

\* the search of the trail answering with the bottom whenever it finds s
TrailIndexBottom(sl, idx, s) ==
    IF \E i \in 0..(idx - 1) : sl[i] = s THEN 0 ELSE idx

\* The first i < statelist_idx with statelist[i] = s; statelist_idx if none.
TrailIndex(sl, idx, s) ==
    IF \E i \in 0..(idx - 1) : sl[i] = s
    THEN CHOOSE i \in 0..(idx - 1) :
            /\ sl[i] = s
            /\ \A j \in 0..(i - 1) : sl[j] # s
    ELSE idx

\* next_state(token) on the globals g = [state, stack, statelist,
\* statelist_idx]: the new globals, with
\*   call: the handler invocation made (NoCall if none), as
\*         [call_identifier, stack: what the handler could read];
\*   oob:  the store statelist[statelist_idx++] fell outside the array.
next_state(g, token) ==
    LET isCall == token.next_state = __CALL
        _next == IF isCall THEN CallNextState(token.call_identifier)
                 ELSE token.next_state
        stk1 == IF isCall THEN clear_stack(g.stack) ELSE g.stack
        stk2 == IF _next = "INITIAL" THEN clear_stack(stk1) ELSE stk1
        i == TrailIndex(g.statelist, g.statelist_idx, _next)
    IN  [state |-> _next,
         stack |-> stk2,
         statelist |->
            IF i = g.statelist_idx /\ i < StatelistSize
            THEN [g.statelist EXCEPT ![i] = _next] ELSE g.statelist,
         statelist_idx |-> i + 1,
         call |-> IF isCall
                  THEN [call_identifier |-> token.call_identifier,
                        stack |-> g.stack]
                  ELSE [call_identifier |-> NoCall, stack |-> EmptyStack],
         oob |-> i = g.statelist_idx /\ i >= StatelistSize]

----------------------------------------------------------------------------
(* The lexer primitives of parse_config.                                   *)

\* while ((*walk == ' ' || *walk == '\t') && *walk != '\0') walk++;
RECURSIVE SkipWhitespace(_, _)
SkipWhitespace(inp, w) ==
    IF Ch(inp, w) \in {SP, TAB} THEN SkipWhitespace(inp, w + 1) ELSE w

\* strncasecmp(walk, token->name + 1, strlen(token->name) - 1) == 0
LiteralMatches(inp, w, name) ==
    \A k \in 1..(Len(name) - 1) :
        /\ w + k - 1 < Len(inp)
        /\ ToLower(inp[w + k]) = ToLower(name[k + 1])

LONG_MAX == 2147483647
LONG_MIN == (-LONG_MAX) - 1

Digits == <<"0","1","2","3","4","5","6","7","8","9">>
IsDigit(ch) == \E i \in 1..10 : Digits[i] = ch
DigitValue(ch) == (CHOOSE i \in 1..10 : Digits[i] = ch) - 1

\* isspace(3) in the C locale (the vertical tab is not in any input here)
IsSpace(ch) == ch \in {SP, TAB, LF, CR, "\f"}

RECURSIVE SkipSpace(_, _)
SkipSpace(inp, w) ==
    IF IsSpace(Ch(inp, w)) THEN SkipSpace(inp, w + 1) ELSE w

\* The digits of strtol, accumulated as a negative number down to `low`;
\* once the value is out of range the remaining digits are still consumed.
RECURSIVE StrtolDigits(_, _, _, _, _)
StrtolDigits(inp, p, acc, low, range) ==
    IF ~IsDigit(Ch(inp, p)) THEN [end |-> p, acc |-> acc, range |-> range]
    ELSE LET d == DigitValue(Ch(inp, p)) IN
         IF range \/ acc < (low + d + 9) \div 10
         THEN StrtolDigits(inp, p + 1, acc, low, TRUE)
         ELSE StrtolDigits(inp, p + 1, acc * 10 - d, low, FALSE)

\* a strtol that converts one digit and knows no sign and no range
StrtolOneDigit(inp, w) ==
    IF IsDigit(Ch(inp, w))
    THEN [end |-> w + 1, num |-> DigitValue(Ch(inp, w)), erange |-> FALSE]
    ELSE [end |-> w, num |-> 0, erange |-> FALSE]

\* strtol(walk, &end, 10): [end, num, erange]
strtol(inp, w) ==
    LET p0 == SkipSpace(inp, w)
        neg == Ch(inp, p0) = "-"
        p1 == IF Ch(inp, p0) \in {"-", "+"} THEN p0 + 1 ELSE p0
        r == StrtolDigits(inp, p1, 0, IF neg THEN LONG_MIN ELSE -LONG_MAX, FALSE)
    IN  IF r.end = p1 THEN [end |-> w, num |-> 0, erange |-> FALSE]
        ELSE IF r.range
        THEN [end |-> r.end, num |-> IF neg THEN LONG_MIN ELSE LONG_MAX,
              erange |-> TRUE]
        ELSE [end |-> r.end, num |-> IF neg THEN r.acc ELSE -r.acc,
              erange |-> FALSE]

\* while (*walk != '\0' && (*walk != '"' || *(walk-1) == '\\')) walk++;
RECURSIVE ScanQuoted(_, _)
ScanQuoted(inp, w) ==
    IF Ch(inp, w) # NUL /\ (Ch(inp, w) # QUOTE \/ Ch(inp, w - 1) = BACKSLASH)
    THEN ScanQuoted(inp, w + 1) ELSE w

\* while (*walk != '\0' && *walk != '\r' && *walk != '\n') walk++;
RECURSIVE ScanLine(_, _)
ScanLine(inp, w) ==
    IF Ch(inp, w) \notin {NUL, CR, LF} THEN ScanLine(inp, w + 1) ELSE w

\* the delimiters of an unquoted word
RECURSIVE ScanWord(_, _)
ScanWord(inp, w) ==
    IF Ch(inp, w) \notin {SP, TAB, "]", ",", ";", CR, LF, NUL}
    THEN ScanWord(inp, w + 1) ELSE w

\* the copy loop without the handling of escaped quotes
CopyVerbatim(inp, beginning, inpos, n) ==
    Str(SubSeq(inp, beginning + inpos + 1, beginning + n))

\* The copy loop of a string or word: beginning[0 .. n-1] with every
\* backslash that stands before a double quote dropped.
RECURSIVE CopyEscaped(_, _, _, _)
CopyEscaped(inp, beginning, inpos, n) ==
    IF inpos >= n THEN ""
    ELSE LET esc == /\ Ch(inp, beginning + inpos) = BACKSLASH
                    /\ Ch(inp, beginning + inpos + 1) = QUOTE
             from == IF esc THEN inpos + 1 ELSE inpos
         IN  Ch(inp, beginning + from) \o CopyEscaped(inp, beginning, from + 1, n)

\* The string/word branch: [matched, walk, str].  Without a match walk is
\* where the scan left it.
MatchString(inp, w, name) ==
    LET quoted == Ch(inp, w) = QUOTE
        beginning == IF quoted THEN w + 1 ELSE w
        stop == IF quoted THEN ScanQuoted(inp, w + 1)
                ELSE IF name[1] = "s" THEN ScanLine(inp, w)
                ELSE ScanWord(inp, w)
    IN  IF stop # beginning
        THEN [matched |-> TRUE,
              walk |-> IF Ch(inp, stop) = QUOTE THEN stop + 1 ELSE stop,
              str |-> CopyEscaped(inp, beginning, 0, stop - beginning)]
        ELSE [matched |-> FALSE, walk |-> stop, str |-> NULL]

\* the descriptor branches with an `end` that does not count the line
MatchTokenEndKeepsLine(inp, w, token) ==
    LET name == token.name
        none == [matched |-> FALSE, walk |-> w, capture |-> "none",
                 str |-> NULL, num |-> 0, eol |-> FALSE]
    IN
    IF name[1] = "'"
    THEN IF LiteralMatches(inp, w, name)
         THEN [none EXCEPT !.matched = TRUE,
                           !.walk = w + Len(name) - 1,
                           !.capture = IF token.identifier # NULL
                                       THEN "str" ELSE "none",
                           !.str = Str(Tail(name))]
         ELSE none
    ELSE IF name = K_number
    THEN LET r == strtol(inp, w) IN
         IF r.erange \/ r.end = w THEN none
         ELSE [none EXCEPT !.matched = TRUE, !.walk = r.end,
                           !.capture = IF token.identifier # NULL
                                       THEN "long" ELSE "none",
                           !.num = r.num]
    ELSE IF name = K_string \/ name = K_word
    THEN LET r == MatchString(inp, w, name) IN
         IF r.matched
         THEN [none EXCEPT !.matched = TRUE, !.walk = r.walk,
                           !.capture = IF token.identifier # NULL
                                       THEN "str" ELSE "none",
                           !.str = r.str]
         ELSE [none EXCEPT !.walk = r.walk]
    ELSE IF name = K_line
    THEN [none EXCEPT !.matched = TRUE, !.walk = ScanLine(inp, w) + 1,
                      !.eol = TRUE]
    ELSE IF name = K_end /\ Ch(inp, w) \in {NUL, LF, CR}
    THEN [none EXCEPT !.matched = TRUE, !.walk = w + 1]
    ELSE none

\* One pass of the body of `for (c = 0; c < ptr->n; c++)` for descriptor
\* token with the cursor at w, up to (not including) the push and the
\* transition:
\*   matched: the descriptor's branch reaches next_state(token);
\*   walk:    the cursor the branch leaves (the next descriptor's, if not
\*            matched);
\*   capture: "str", "long" or "none": the push the branch makes;
\*   eol:     the branch increments linecnt.
MatchToken(inp, w, token) ==
    LET name == token.name
        none == [matched |-> FALSE, walk |-> w, capture |-> "none",
                 str |-> NULL, num |-> 0, eol |-> FALSE]
    IN
    IF name[1] = "'"
    THEN IF LiteralMatches(inp, w, name)
         THEN [none EXCEPT !.matched = TRUE,
                           !.walk = w + Len(name) - 1,
                           !.capture = IF token.identifier # NULL
                                       THEN "str" ELSE "none",
                           !.str = Str(Tail(name))]
         ELSE none
    ELSE IF name = K_number
    THEN LET r == strtol(inp, w) IN
         IF r.erange \/ r.end = w THEN none
         ELSE [none EXCEPT !.matched = TRUE, !.walk = r.end,
                           !.capture = IF token.identifier # NULL
                                       THEN "long" ELSE "none",
                           !.num = r.num]
    ELSE IF name = K_string \/ name = K_word
    THEN LET r == MatchString(inp, w, name) IN
         IF r.matched
         THEN [none EXCEPT !.matched = TRUE, !.walk = r.walk,
                           !.capture = IF token.identifier # NULL
                                       THEN "str" ELSE "none",
                           !.str = r.str]
         ELSE [none EXCEPT !.walk = r.walk]
    ELSE IF name = K_line
    THEN [none EXCEPT !.matched = TRUE, !.walk = ScanLine(inp, w) + 1,
                      !.eol = TRUE]
    ELSE IF name = K_end /\ Ch(inp, w) \in {NUL, LF, CR}
    THEN [none EXCEPT !.matched = TRUE, !.walk = w + 1, !.eol = TRUE]
    ELSE none

\* a descriptor loop in which no descriptor ever matches
ScanNothing(toks, inp, w, c) ==
    [handled |-> FALSE, c |-> 0, at |-> w,
     m |-> [matched |-> FALSE, walk |-> w, capture |-> "none",
            str |-> NULL, num |-> 0, eol |-> FALSE]]

\* a descriptor loop that takes the last descriptor that matches
ScanTokensLast(toks, inp, w, c) ==
    LET matching == {d \in c..Len(toks) : MatchToken(inp, w, toks[d]).matched}
    IN  IF matching = {} THEN ScanNothing(toks, inp, w, c)
        ELSE LET d == CHOOSE d \in matching : \A o \in matching : o <= d
             IN  [handled |-> TRUE, c |-> d, at |-> w,
                  m |-> MatchToken(inp, w, toks[d])]

\* The descriptor loop from index c (1-based) with the cursor at w:
\* [handled, c, at, m] where c is the descriptor that matched, at the cursor
\* it was tried at and m its MatchToken; without a match, at is the cursor
\* the loop ends with.
RECURSIVE ScanTokens(_, _, _, _)
ScanTokens(toks, inp, w, c) ==
    IF c > Len(toks)
    THEN [handled |-> FALSE, c |-> 0, at |-> w,
          m |-> [matched |-> FALSE, walk |-> w, capture |-> "none",
                 str |-> NULL, num |-> 0, eol |-> FALSE]]
    ELSE LET m == MatchToken(inp, w, toks[c]) IN
         IF m.matched THEN [handled |-> TRUE, c |-> c, at |-> w, m |-> m]
         ELSE ScanTokens(toks, inp, m.walk, c + 1)

----------------------------------------------------------------------------
(* The error reporter.                                                     *)

\* The loop that fills possible_tokens, from descriptor c (1-based).
RECURSIVE PossibleTokens(_, _)
PossibleTokens(toks, c) ==
    IF c > Len(toks) THEN ""
    ELSE LET name == toks[c].name
             sep == IF c < Len(toks) THEN ", " ELSE ""
         IN  IF name[1] = "'"
             THEN ((("'" \o Str(Tail(name))) \o "'") \o sep)
                      \o PossibleTokens(toks, c + 1)
             ELSE IF name = K_error
             THEN PossibleTokens(toks, c + 1)
             ELSE ((("<" \o Str(name)) \o ">") \o sep)
                      \o PossibleTokens(toks, c + 1)

ErrorMessage(toks) == "Expected one of these tokens: " \o PossibleTokens(toks, 1)

\* start_of_line(walk, beginning) with beginning = input
RECURSIVE start_of_line(_, _)
start_of_line(inp, w) ==
    IF Ch(inp, w) # LF /\ Ch(inp, w) # CR /\ w >= 0
    THEN start_of_line(inp, w - 1) ELSE w + 1

\* The indices at which start_of_line(walk, beginning) reads *walk: the
\* loop condition reads the byte before it compares walk with beginning.
RECURSIVE StartOfLineReads(_, _)
StartOfLineReads(inp, w) ==
    {w} \cup (IF Ch(inp, w) # LF /\ Ch(inp, w) # CR /\ w >= 0
              THEN StartOfLineReads(inp, w - 1) ELSE {})

\* The reads of the calls of start_of_line that the reporter makes with
\* the cursor at w and the line counter lc: for the offending line, and
\* for the one or two context lines before it.
ReporterReads(inp, w, lc) ==
    StartOfLineReads(inp, w)
    \cup (IF lc > 1
          THEN StartOfLineReads(inp, start_of_line(inp, w) - 2) ELSE {})
    \cup (IF lc > 2
          THEN StartOfLineReads(inp,
                   start_of_line(inp, start_of_line(inp, w) - 2) - 2)
          ELSE {})

\* The loop that fills `position`, from copywalk.
RECURSIVE PositionFrom(_, _, _)
PositionFrom(inp, copywalk, w) ==
    IF Ch(inp, copywalk) \in {LF, CR, NUL} THEN ""
    ELSE (IF copywalk >= w THEN "^"
          ELSE IF Ch(inp, copywalk) = TAB THEN TAB ELSE SP)
             \o PositionFrom(inp, copywalk + 1, w)

\* The record appended to the JSON reply for an error with the cursor at w.
Diagnostic(toks, inp, w) ==
    [success |-> FALSE,
     parse_error |-> TRUE,
     error |-> ErrorMessage(toks),
     input |-> Str(inp),
     errorposition |-> PositionFrom(inp, start_of_line(inp, w), w)]

NoDiagnostic ==
    [success |-> TRUE, parse_error |-> FALSE, error |-> "", input |-> "",
     errorposition |-> ""]

\* the skip to the end of the line left out
SkipLineNowhere(inp, w) == w

\* the skip to the end of the line replaced by a skip of one byte
SkipLineOneByte(inp, w) == w + 1

\* while ((walk - input) <= len && *walk != '\n') walk++;
RECURSIVE SkipLine(_, _)
SkipLine(inp, w) ==
    IF w <= Len(inp) /\ Ch(inp, w) # LF THEN SkipLine(inp, w + 1) ELSE w

\* the <error> descriptor of INITIAL taken for every state
ErrorTokenOfInitial(gr, s) == Tok(K_error, NULL, "INITIAL", NoCall)

\* Whether tokens[s] holds an <error> descriptor, and the first one.
HasErrorToken(gr, s) == \E j \in 1..Len(tokens(gr, s)) : tokens(gr, s)[j].name = K_error
ErrorToken(gr, s) ==
    LET toks == tokens(gr, s)
        j == CHOOSE j \in 1..Len(toks) :
                /\ toks[j].name = K_error
                /\ \A k \in 1..(j - 1) : toks[k].name # K_error
    IN  toks[j]

\* the recovery walk looking at the top of the trail only
NearestErrorAtTop(gr, sl, i) == IF HasErrorToken(gr, sl[i]) THEN i ELSE -1

\* the recovery walk looking at the bottom of the trail only
NearestErrorAtBottom(gr, sl, i) ==
    IF i >= 0 /\ HasErrorToken(gr, sl[0]) THEN 0 ELSE -1

\* The recovery walk for (i = statelist_idx-1; i >= 0 && !found; i--): the
\* index of the trail state whose <error> descriptor is followed; -1 if the
\* walk ends without one.
RECURSIVE NearestErrorIndex(_, _, _)
NearestErrorIndex(gr, sl, i) ==
    IF i < 0 THEN -1
    ELSE IF HasErrorToken(gr, sl[i]) THEN i
    ELSE NearestErrorIndex(gr, sl, i - 1)

----------------------------------------------------------------------------
(* One iteration of the main loop `while ((walk - input) <= len)`.         *)

Globals == [state |-> state, stack |-> stack, statelist |-> statelist,
            statelist_idx |-> statelist_idx]

NoTransition(g) ==
    [state |-> g.state, stack |-> g.stack, statelist |-> g.statelist,
     statelist_idx |-> g.statelist_idx,
     call |-> [call_identifier |-> NoCall, stack |-> EmptyStack],
     oob |-> FALSE]

\* The push a matched descriptor makes before its transition.
Push(stk, token, m) ==
    IF m.capture = "str" THEN push_string(stk, token.identifier, m.str)
    ELSE IF m.capture = "long" THEN push_long(stk, token.identifier, m.num)
    ELSE [stack |-> stk, full |-> FALSE, undefined |-> FALSE]

\* The iteration that starts with globals g, cursor w and line counter lc:
\*   handled:  a descriptor matched (else the error path ran);
\*   g:        the globals after it (with call and oob as next_state gives);
\*   walk, linecnt: the locals after it;
\*   exit:     "no", "exit" (exit(1) in a push), "assert" (the assertion
\*             after the recovery walk failed), "undefined" (a store
\*             outside statelist, or a long read as a string);
\*   diag:     the diagnostic record of the error path;
\*   the other fields describe the iteration for the history.
\*   sc:       what the descriptor loop of the iteration found.
IterationAfter(gr, g, inp, w, lc, sc) ==
    LET toks == tokens(gr, g.state) IN
    IF sc.handled
    THEN LET token == toks[sc.c]
             pu == Push(g.stack, token, sc.m)
             ns == IF pu.full \/ pu.undefined THEN NoTransition(g)
                   ELSE next_state([g EXCEPT !.stack = pu.stack], token)
         IN  [handled |-> TRUE,
              g |-> ns,
              walk |-> IF pu.full \/ pu.undefined THEN sc.at ELSE sc.m.walk,
              linecnt |-> IF sc.m.eol /\ ~pu.full THEN lc + 1 ELSE lc,
              exit |-> IF pu.full THEN "exit"
                       ELSE IF pu.undefined \/ ns.oob THEN "undefined"
                       ELSE "no",
              diag |-> NoDiagnostic,
              from |-> g.state, c |-> sc.c, token |-> token,
              start |-> w, at |-> sc.at, m |-> sc.m,
              pushed |-> pu.stack, cleared |-> pu.stack]
    ELSE LET w2 == SkipLine(inp, sc.at)
             cleared == clear_stack(g.stack)
             i == NearestErrorIndex(gr, g.statelist, g.statelist_idx - 1)
             g1 == [g EXCEPT !.stack = cleared]
             token == IF i >= 0 THEN ErrorToken(gr, g.statelist[i])
                      ELSE Tok(K_error, NULL, g.state, NoCall)
             ns == IF i >= 0 THEN next_state(g1, token) ELSE NoTransition(g1)
         IN  [handled |-> FALSE,
              g |-> ns,
              walk |-> w2,
              linecnt |-> lc,
              exit |-> IF i < 0 THEN "assert"
                       ELSE IF ns.oob THEN "undefined" ELSE "no",
              diag |-> Diagnostic(toks, inp, sc.at),
              from |-> g.state, c |-> i, token |-> token,
              start |-> w, at |-> sc.at, m |-> sc.m,
              pushed |-> g.stack, cleared |-> cleared]

Iteration(gr, g, inp, w, lc) ==
    IterationAfter(gr, g, inp, w, lc,
                   ScanTokens(tokens(gr, g.state), inp, SkipWhitespace(inp, w), 1))

\* The history record of an iteration.
TraceEntry(it) ==
    [op |-> IF it.handled THEN "match" ELSE "error",
     from |-> it.from,          \* the state the iteration started in
     c |-> it.c,                \* match: the descriptor's index (from 1);
                                \* error: the trail index whose <error> was taken
     token |-> it.token,        \* the descriptor whose transition was made
     start |-> it.start,        \* the cursor when the iteration began
     at |-> it.at,              \* the cursor the descriptor matched at, or
                                \* the cursor the error was reported at
     capture |-> it.m.capture,  \* match: the push made ("str", "long", "none")
     str |-> it.m.str,          \* and the value pushed
     num |-> it.m.num,
     walk |-> it.walk,          \* the cursor when the iteration ended
     to |-> it.g.state,         \* the state after the transition
     pushed |-> it.pushed,      \* the stack between the push and the transition
     call |-> it.g.call,        \* the handler invocation, with what it saw
     stack |-> it.g.stack,      \* the stack after the transition
     idx |-> it.g.statelist_idx,
     oob |-> it.g.oob,          \* the transition stored outside statelist
     diag |-> it.diag,          \* error: the diagnostic record emitted
     exit |-> it.exit]

\* The globals of a process in which parse_config has not run before,
\* after `state = INITIAL; statelist_idx = 1;`.
FreshGlobals ==
    [state |-> "INITIAL", stack |-> EmptyStack, statelist |-> InitialStatelist,
     statelist_idx |-> 1]

\* The main loop as a function: the history of the iterations made from
\* globals g with the cursor at w, at most `fuel` of them.
RECURSIVE RunParse(_, _, _, _, _, _)
RECURSIVE RunNext(_, _, _, _)
RunParse(gr, g, inp, w, lc, fuel) ==
    IF w > Len(inp) \/ fuel = 0 THEN << >>
    ELSE RunNext(gr, inp, fuel, Iteration(gr, g, inp, w, lc))

RunNext(gr, inp, fuel, it) ==
    <<TraceEntry(it)>> \o
    (IF it.exit # "no" THEN << >>
     ELSE RunParse(gr, [state |-> it.g.state, stack |-> it.g.stack,
                        statelist |-> it.g.statelist,
                        statelist_idx |-> it.g.statelist_idx],
                   inp, it.walk, it.linecnt, fuel - 1))

\* parse_config(inp) in a process that has not parsed before
FirstParse(gr, inp) == RunParse(gr, FreshGlobals, inp, 0, 1, 2 * (Len(inp) + 2))

----------------------------------------------------------------------------
(* The inputs.                                                             *)

MaxPieces == 3
MaxParses == 2
MaxNest == 10
MaxCaptures == 11
MaxWords == 2
MaxQuoted == 3

RECURSIVE Concats(_, _)
Concats(pieces, k) ==
    IF k = 0 THEN {<< >>}
    ELSE LET shorter == Concats(pieces, k - 1)
         IN  shorter \cup {s \o q : s \in shorter, q \in pieces}

RECURSIVE Repeat(_, _)
Repeat(piece, k) == IF k = 0 THEN << >> ELSE piece \o Repeat(piece, k - 1)

ConfigPieces ==
    { <<"w","o","r","k","s","p","a","c","e"," ","5">>,
      <<"t","a","g","s"," ","a"," ","b">>,
      <<"t","a","g","s"," ","a">>,
      <<"b","o","g","u","s">>,
      <<"m","o","d","e"," ","\"","x","\""," ","{">>,
      <<"b","i","n","d","s","y","m"," ","a"," ","n","o","p">>,
      <<"b","i","n","d","s","y","m"," ","a">>,
      <<"}">>,
      <<"#"," ","c">>,
      <<LF>> }

\* what the parser of the config grammar is given
ConfigInputs == Concats(ConfigPieces, MaxPieces)

\* what the parser of the stress grammar is given: nestings `n...n`, `nums`
\* followed by numbers, then words, then perhaps a number, and `open` blocks
StressInputs ==
    {Repeat(<<"n">>, k) \o t : k \in 0..MaxNest, t \in {<< >>, <<"}">>, <<LF>>}}
    \cup
    {((<<"n","u","m","s">> \o Repeat(<<" ","5">>, k)) \o Repeat(<<" ","a">>, j)) \o t :
        k \in 0..MaxCaptures,
        j \in 0..MaxWords,
        t \in {<< >>, <<LF>>, <<" ","5">>}}
    \cup
    {(<<"o","p","e","n"," ">> \o a) \o t :
        a \in {<<"a">>, <<"b">>},
        t \in {<< >>, <<" ","{">>, <<LF,"{">>}}

ModeLine == <<"m","o","d","e"," ","\"","x","\""," ","{">>
BindsymWord == <<"b","i","n","d","s","y","m">>

\* the lines between `mode "x" {` and `}` in S5
BlockLines ==
    { <<" "," ","g","a","r","b","a","g","e">>,
      (<<" "," ">> \o BindsymWord) \o <<" ","a"," ","n","o","p">>,
      << >> }

\* what stands between the quotes of a quoted word or string
QuotedContents == Concats({<<"a">>, <<BACKSLASH>>, <<QUOTE>>}, MaxQuoted)

\* the inputs of the scenarios: the S5 block with two lines in it, the S6
\* state entered by `keys`, and a binding in a mode whose key, or whose
\* command, is quoted
ScenarioInputs ==
    {((((((ModeLine \o <<LF>>) \o l2) \o <<LF>>) \o l3) \o <<LF>>) \o <<"}">>) \o <<LF>> :
        l2 \in BlockLines, l3 \in BlockLines}
    \cup
    {<<"k","e","y","s">> \o t :
        t \in { << >>, <<LF>>, <<" ","+">>,
                (<<" ">> \o BindsymWord) \o <<"b","o","l"," ","x">>,
                (<<" ">> \o BindsymWord) \o <<" ","x">>,
                <<" ","b","i","n","d","c","o","d","e"," ","x">>,
                <<" ","w"," ","x">> }}
    \cup
    {((((ModeLine \o <<" ">>) \o BindsymWord) \o <<" ",QUOTE>>) \o q) \o <<QUOTE," ","z">> :
        q \in QuotedContents}
    \cup
    {((((ModeLine \o <<" ">>) \o BindsymWord) \o <<" ","k"," ",QUOTE>>) \o q) \o <<QUOTE>> :
        q \in QuotedContents}

WorkspaceWord == <<"w","o","r","k","s","p","a","c","e">>
BogusWord == <<"b","o","g","u","s">>

\* what follows `workspace` and `nums`: numbers at and beyond the ends of
\* the range of a long, signs, a number on the next line, no number
NumberTexts ==
    { <<" ","2","1","4","7","4","8","3","6","4","7">>,
      <<" ","2","1","4","7","4","8","3","6","4","8">>,
      <<" ","-","2","1","4","7","4","8","3","6","4","8">>,
      <<" ","-","2","1","4","7","4","8","3","6","4","9">>,
      <<" ","9","9","9","9","9","9","9","9","9","9","9">>,
      <<" ","-","5">>,
      <<" ","+","5">>,
      <<" ","0","7">>,
      <<" ","0">>,
      <<" ","0","x">>,
      <<" ","-">>,
      <<" ","5","x">>,
      <<" ","x">>,
      <<LF,"5">>,
      <<CR,LF,"5",LF>>,
      <<" ",TAB,LF," ","5">> }

\* the line ends of a file
LineEnds == {<<LF>>, <<CR,LF>>, <<CR>>}

\* the inputs about lines: numbers, line ends of both kinds in front of and
\* behind directives, comments and offending lines, tabs in an offending
\* line, and a quoted string that is not closed on its line
LineInputs ==
    {(h \o t) \o e : h \in {WorkspaceWord, <<"n","u","m","s">>},
                      t \in NumberTexts, e \in {<< >>, <<LF>>}}
    \cup
    {((a \o e) \o b) \o f :
        a \in {<< >>, WorkspaceWord \o <<" ","5">>, <<"#"," ","c">>, BogusWord},
        e \in LineEnds,
        b \in {BogusWord, <<TAB>> \o BogusWord,
               WorkspaceWord \o <<TAB,"x"," ","y">>,
               <<"t","a","g","s"," ","a">>},
        f \in {<< >>, <<LF>>, <<CR,LF>> \o BogusWord}}
    \cup
    {(<<"m","o","d","e"," ",QUOTE,"x">> \o e) \o b :
        e \in LineEnds,
        b \in {WorkspaceWord \o <<" ","5">>, <<QUOTE," ","{">>, BogusWord \o <<LF>>}}

InputsOf(f) ==
    IF f = "config" THEN ConfigInputs
    ELSE IF f = "scenario" THEN ScenarioInputs
    ELSE IF f = "lines" THEN LineInputs
    ELSE StressInputs

----------------------------------------------------------------------------
(* The program.                                                            *)

\* The outcomes of the store statelist[statelist_idx++] = _next_state with
\* statelist_idx = 10: statelist_idx is declared right behind the array, so
\* the store may leave the incremented index or any other value in it.
UndefinedIdx == 0..(StatelistSize + 1)

InitFor(gr, f) ==
    /\ build \in {"test", "i3"}
    /\ grammar = gr
    /\ family = f
    /\ pc = "start"
    /\ input = << >>
    /\ walk = 0
    /\ linecnt = 1
    /\ state = "INITIAL"
    /\ stack = EmptyStack
    /\ statelist = InitialStatelist
    /\ statelist_idx = 1
    \* main: `struct context context;` is not initialised
    /\ has_errors \in (IF build = "test" THEN BOOLEAN ELSE {FALSE})
    /\ diags = << >>
    /\ trace = << >>
    /\ parses = 0

Init == InitFor("config", "config")

InitStress == InitFor("stress", "stress")

\* the scenarios, under the config grammar and under the S5 wording of it
InitScenario == \E gr \in {"config", "block"} : InitFor(gr, "scenario")

\* the inputs about lines, under the config and under the stress grammar
InitLines == \E gr \in {"config", "stress"} : InitFor(gr, "lines")

\* parse_config up to its main loop
ParseConfigEntry(inp) ==
    /\ input' = inp
    /\ state' = "INITIAL"
    /\ statelist_idx' = 1
    /\ walk' = 0
    /\ linecnt' = 1
    /\ diags' = << >>
    /\ trace' = << >>
    /\ pc' = "parsing"
    /\ parses' = parses + 1
    /\ UNCHANGED <<build, grammar, family, stack, statelist>>

\* main of the TEST_PARSER binary
Main(inp) ==
    /\ build = "test"
    /\ pc = "start"
    /\ ParseConfigEntry(inp)
    /\ UNCHANGED has_errors

\* parse_file: at start-up and at every reload of the configuration
ParseFile(inp) ==
    /\ build = "i3"
    /\ pc \in {"start", "returned"}
    /\ has_errors' = FALSE
    /\ parses < MaxParses
    /\ ParseConfigEntry(inp)

\* What an iteration leaves in the variables.
Apply(it) ==
    /\ state' = it.g.state
    /\ stack' = it.g.stack
    /\ statelist' = it.g.statelist
    /\ IF it.g.oob
       THEN statelist_idx' \in UndefinedIdx
       ELSE statelist_idx' = it.g.statelist_idx
    /\ walk' = it.walk
    /\ linecnt' = it.linecnt
    /\ trace' = Append(trace, TraceEntry(it))
    /\ pc' = CASE it.exit = "no" -> "parsing"
               [] it.exit = "exit" -> "exited"
               [] it.exit = "assert" -> "assert"
               [] OTHER -> "undefined"
    /\ UNCHANGED <<build, grammar, family, input, parses>>

\* An iteration in which a descriptor of the current state matches.
TokenStep ==
    /\ pc = "parsing"
    /\ walk <= Len(input)
    /\ \E it \in {Iteration(grammar, Globals, input, walk, linecnt)} :
       /\ it.handled
       /\ Apply(it)
    /\ UNCHANGED <<has_errors, diags>>

\* An iteration in which none matches: report, skip the line, recover.
ErrorStep ==
    /\ pc = "parsing"
    /\ walk <= Len(input)
    /\ \E it \in {Iteration(grammar, Globals, input, walk, linecnt)} :
       /\ ~it.handled
       /\ Apply(it)
       /\ diags' = Append(diags, it.diag)
    /\ has_errors' = TRUE

\* The loop condition fails: y(array_close); return &command_output;
Return ==
    /\ pc = "parsing"
    /\ walk > Len(input)
    /\ pc' = "returned"
    /\ UNCHANGED <<build, grammar, family, input, walk, linecnt, state, stack,
                   statelist, statelist_idx, has_errors, diags, trace, parses>>

Next ==
    \/ \E inp \in InputsOf(family) : Main(inp)
    \/ \E inp \in InputsOf(family) : ParseFile(inp)
    \/ TokenStep
    \/ ErrorStep
    \/ Return

Spec == Init /\ [][Next]_vars

SpecStress == InitStress /\ [][Next]_vars

SpecScenario == InitScenario /\ [][Next]_vars

SpecLines == InitLines /\ [][Next]_vars

----------------------------------------------------------------------------
(* Reading the history.                                                    *)

Last(seq) == seq[Len(seq)]

\* the iterations of the current parse that took the error path
Errors(tr) == {k \in 1..Len(tr) : tr[k].op = "error"}

\* what get_string and get_long can read of a stack: the used slots
Captured(stk) ==
    [c \in Slots |-> IF stk[c].identifier = NULL THEN EmptyStack[c] ELSE stk[c]]

\* the handler invocations of a history, in order, each with the captured
\* values the handler could read
Calls(tr) ==
    LET made == SelectSeq(tr, LAMBDA e : e.call.call_identifier # NoCall)
    IN  [k \in 1..Len(made) |->
            [call_identifier |-> made[k].call.call_identifier,
             stack |-> Captured(made[k].call.stack)]]

\* the diagnostic records of a history, in order
Diagnostics(tr) ==
    LET failed == SelectSeq(tr, LAMBDA e : e.op = "error")
    IN  [k \in 1..Len(failed) |-> failed[k].diag]

\* the number of LF before position p: the (0-based) line p is on, a line
\* terminator belonging to the line it ends
RECURSIVE LineOf(_, _)
LineOf(inp, p) ==
    IF p <= 0 THEN 0
    ELSE (IF Ch(inp, p - 1) = LF THEN 1 ELSE 0) + LineOf(inp, p - 1)

\* the position of the LF that ends the line of p; Len(inp) + 1 if none
RECURSIVE LineEnd(_, _)
LineEnd(inp, p) ==
    IF p > Len(inp) \/ Ch(inp, p) = LF THEN p ELSE LineEnd(inp, p + 1)

----------------------------------------------------------------------------
(* Termination.                                                            *)

----------------------------------------------------------------------------
(* Diagnostics.                                                            *)

\* C2: when parse_config has returned, the number of diagnostic records
\* equals the number k of iterations in which no descriptor matched, and the
\* context's has_errors is true if and only if k > 0.
DiagnosticsAndFlag ==
    pc = "returned" =>
        /\ Len(diags) = Cardinality(Errors(trace))
        /\ has_errors <=> (Cardinality(Errors(trace)) > 0)

\* C3: no two diagnostics of a parse are for the same line, and after a
\* diagnostic for line L the next descriptor that matches is matched at the
\* LF that ends L or beyond it.
OneDiagnosticPerLine ==
    /\ \A j, k \in Errors(trace) :
          j < k => LineOf(input, trace[j].at) < LineOf(input, trace[k].at)
    /\ \A j \in Errors(trace) : \A k \in (j + 1)..Len(trace) :
          trace[k].op = "match" => trace[k].at >= LineEnd(input, trace[j].at)

\* a parse has returned with diagnostics for two lines and a match after the
\* first of them
TwoOffendingLines ==
    /\ pc = "returned"
    /\ \E j, k \in Errors(trace) : \E m \in 1..Len(trace) :
          j < m /\ m < k /\ trace[m].op = "match"

----------------------------------------------------------------------------
(* Determinism.                                                            *)

SameOutput(tr, ref) ==
    /\ Diagnostics(tr) = Diagnostics(ref)
    /\ Calls(tr) = Calls(ref)

\* C4: a parse that has returned has emitted the diagnostics and made the
\* handler invocations, with the captured values, that the parse of the same
\* input makes in a process that has not parsed anything before.
ParseIsDeterministic ==
    pc = "returned" => SameOutput(trace, FirstParse(grammar, input))

----------------------------------------------------------------------------
(* The captured-value stack.                                               *)

\* C5: right after an iteration whose transition invoked a handler or ended
\* in INITIAL, every slot of the stack is unused.
StackClearedAfterCallAndInitial ==
    (/\ trace # << >>
     /\ Last(trace).exit = "no"
     /\ \/ Last(trace).call.call_identifier # NoCall
        \/ Last(trace).to = "INITIAL")
    => /\ stack = Last(trace).stack
       /\ \A c \in Slots : stack[c].identifier = NULL

\* a handler has just been invoked with a captured value on the stack
CallWithCapturedValue ==
    /\ pc = "parsing"
    /\ trace # << >>
    /\ Last(trace).call.call_identifier # NoCall
    /\ Last(trace).call.stack[0].identifier # NULL

\* C8: an iteration whose descriptor captures a value ends in exit(1) exactly
\* when the stack has no usable slot (none free, and for a string none
\* holding the identifier), and then leaves the stack as it was; otherwise
\* the value goes to one slot (a free one, or appended after a comma to the
\* string of the same identifier) and every other slot is left as it was.
PushKeepsStoredValues ==
    [][ (trace' # trace /\ trace' # << >> /\ Last(trace').op = "match") =>
        LET e == Last(trace')
            id == e.token.identifier
            usable == \E c \in Slots :
                        \/ stack[c].identifier = NULL
                        \/ e.capture = "str" /\ stack[c].identifier = id
        IN  IF e.capture = "none" THEN e.pushed = stack /\ pc' # "exited"
            ELSE IF ~usable THEN pc' = "exited" /\ stack' = stack
            ELSE /\ pc' # "exited"
                 /\ \E c \in Slots :
                      /\ \A d \in Slots \ {c} : e.pushed[d] = stack[d]
                      /\ e.pushed[c].identifier = id
                      /\ IF e.capture = "long"
                         THEN /\ stack[c].identifier = NULL
                              /\ e.pushed[c].type = STACK_LONG
                              /\ e.pushed[c].num = e.num
                         ELSE /\ e.pushed[c].type = STACK_STR
                              /\ e.pushed[c].str =
                                    IF stack[c].identifier = NULL THEN e.str
                                    ELSE (stack[c].str \o ",") \o e.str
      ]_vars

\* a string push has found all ten slots taken by other identifiers
StringPushOnFullStack ==
    /\ pc = "exited"
    /\ Last(trace).capture = "str"
    /\ \A c \in Slots : stack[c].identifier \notin {NULL, Last(trace).token.identifier}

----------------------------------------------------------------------------
(* The state trail.                                                        *)

\* C6: an iteration that makes a transition leaves statelist_idx >= 1 and no
\* state twice in statelist[0..statelist_idx-1]; if the new state was at
\* position i of the live trail, the trail is cut to length i+1 and no entry
\* is written; if it was not, it is stored at the old statelist_idx.
TrailKeptWithoutDuplicates ==
    [][ (trace' # trace /\ trace' # << >> /\ Last(trace').exit = "no") =>
        /\ statelist_idx' >= 1
        /\ \A i, j \in 0..(statelist_idx' - 1) :
              i # j => statelist'[i] # statelist'[j]
        /\ IF \E i \in 0..(statelist_idx - 1) : statelist[i] = state'
           THEN /\ statelist[statelist_idx' - 1] = state'
                /\ statelist_idx' <= statelist_idx
                /\ statelist' = statelist
           ELSE /\ statelist_idx' = statelist_idx + 1
                /\ statelist' = [statelist EXCEPT ![statelist_idx] = state']
      ]_vars

\* a transition has cut at least two states off the trail
TrailCutByTwo ==
    /\ pc = "parsing"
    /\ Len(trace) >= 2
    /\ Last(trace).idx + 2 <= trace[Len(trace) - 1].idx
    /\ Last(trace).idx >= 2

\* C7: the trail never takes an eleventh state: no store is made outside
\* statelist[0..9] and statelist_idx stays within the capacity.
TrailOverflowIsFatal ==
    /\ statelist_idx <= StatelistSize
    /\ \A k \in 1..Len(trace) : ~trace[k].oob

----------------------------------------------------------------------------
(* Error recovery.                                                         *)

\* C9: with an <error> descriptor in INITIAL's table, every error path has
\* found a trail state with an <error> descriptor and followed it, the
\* assertion has not failed, statelist[0] is INITIAL and statelist_idx >= 1.
RecoveryFindsErrorToken ==
    HasErrorToken(grammar, "INITIAL") =>
        /\ pc # "assert"
        /\ statelist[0] = "INITIAL"
        /\ statelist_idx >= 1
        /\ \A k \in Errors(trace) :
              /\ trace[k].c >= 0
              /\ trace[k].token.name = K_error
              /\ trace[k].exit = "no"

\* recovery has walked down the trail from a state without an <error>
\* descriptor to INITIAL
RecoveredThroughTrail ==
    /\ pc = "parsing"
    /\ trace # << >>
    /\ Last(trace).op = "error"
    /\ ~HasErrorToken(grammar, Last(trace).from)
    /\ Last(trace).c = 0

----------------------------------------------------------------------------
(* A directive given twice.                                                *)

\* tr is the history of a directive: no diagnostic, one handler invocation,
\* INITIAL at the end
DirectiveRun(tr) ==
    /\ tr # << >>
    /\ Errors(tr) = {}
    /\ Len(Calls(tr)) = 1
    /\ Last(tr).to = "INITIAL"
    /\ Last(tr).exit = "no"

\* inp is d, LF, d for a directive d
DirectiveTwice(gr, inp) ==
    \E n \in 1..Len(inp) :
        /\ Len(inp) = 2 * n + 1
        /\ inp[n + 1] = LF
        /\ SubSeq(inp, 1, n) = SubSeq(inp, n + 2, 2 * n + 1)
        /\ \A k \in 1..n : inp[k] # LF
        /\ DirectiveRun(FirstParse(gr, SubSeq(inp, 1, n)))

----------------------------------------------------------------------------
(* Whitespace between tokens.                                              *)

\* inp with `run` put in front of the byte at cursor p
Padded(inp, p, run) == (SubSeq(inp, 1, p) \o run) \o SubSeq(inp, p + 1, Len(inp))

WhitespaceRuns == {<<SP>>, <<TAB, SP>>}

\* The inputs that differ from inp by one run of spaces and tabs prepended
\* to one token of the history tr of its parse, the `end` that closes a
\* line included.
WhitespaceVariants(inp, tr) ==
    {Padded(inp, tr[k].at, run) :
        k \in {j \in 1..Len(tr) : tr[j].op = "match"}, run \in WhitespaceRuns}

\* the messages of the diagnostics of a history, in order
Messages(tr) == [k \in 1..Len(Diagnostics(tr)) |-> Diagnostics(tr)[k].error]

\* the same handler invocations with the same captured values, and the
\* same diagnostics as far as their messages go (the records also hold the
\* whole input and a position string with one character per byte)
SameHandling(tr, ref) ==
    /\ Calls(tr) = Calls(ref)
    /\ Messages(tr) = Messages(ref)

\* C11: a run of spaces and tabs prepended to a token of a line changes
\* neither the handler invocations with their captured values nor the
\* diagnostics emitted (and so neither does taking such a run away again).
WhitespaceInsensitive ==
    pc = "returned" =>
        \A v \in WhitespaceVariants(input, trace) :
            SameHandling(trace, FirstParse(grammar, v))

----------------------------------------------------------------------------
(* The end of the input.                                                   *)

\* C12: when the last byte of the input is not a line terminator, the `end`
\* descriptor is matched at the NUL (cursor = len) before parse_config
\* returns, also when the last line produced a syntax error: stated here
\* for the inputs whose last line did.
EndMatchedAtNulAfterError ==
    (/\ pc = "returned"
     /\ input # << >>
     /\ Last(input) \notin {LF, CR}
     /\ \E k \in Errors(trace) :
           LineOf(input, trace[k].at) = LineOf(input, Len(input)))
    => \E k \in 1..Len(trace) :
          /\ trace[k].op = "match"
          /\ trace[k].token.name = K_end
          /\ trace[k].at = Len(input)

----------------------------------------------------------------------------
(* Recovery inside a block.                                                *)

\* spec.md section 8, S5: the input
S5Input ==
    ((((((ModeLine \o <<LF>>) \o <<" "," ","g","a","r","b","a","g","e">>) \o <<LF>>)
        \o ((<<" "," ">> \o BindsymWord) \o <<" ","a"," ","n","o","p">>)) \o <<LF>>)
        \o <<"}">>) \o <<LF>>

\* What S5 expects of a history: one diagnostic, reported on the garbage
\* line (the second), the recovery ending in MODE with the trail still
\* holding it, `bindsym` matched in MODE, and mode_binding invoked with
\* key = a and command = nop.
ModeContextKept(inp, tr) ==
    /\ Cardinality(Errors(tr)) = 1
    /\ \A k \in Errors(tr) :
          /\ LineOf(inp, tr[k].at) = 1
          /\ tr[k].from = "MODE"
          /\ tr[k].to = "MODE"
    /\ \E k \in 1..Len(tr) :
          /\ tr[k].op = "match"
          /\ tr[k].token.name = L_bindsym
          /\ tr[k].from = "MODE"
          /\ LineOf(inp, tr[k].at) = 2
    /\ Len(Calls(tr)) = 1
    /\ Calls(tr)[1].call_identifier = "mode_binding"
    /\ Calls(tr)[1].stack[0].identifier = "key"
    /\ Calls(tr)[1].stack[0].str = "a"
    /\ Calls(tr)[1].stack[1].identifier = "command"
    /\ Calls(tr)[1].stack[1].str = "nop"

\* C13 as stated: with a grammar whose MODE state has its own <error>
\* descriptor, the parse of the S5 input emits exactly one diagnostic, for
\* the garbage line, keeps the mode context and processes `bindsym` in MODE.
BlockRecoveryKeepsMode ==
    (/\ pc = "returned"
     /\ input = S5Input
     /\ HasErrorToken(grammar, "MODE"))
    => ModeContextKept(input, trace)

\* C13, amended: the same, when the <error> descriptor of MODE leads to MODE
\* itself (with the descriptor S5 words, which returns to INITIAL, the mode
\* context is lost).
BlockRecoveryKeepsModeWhenErrorStays ==
    (/\ pc = "returned"
     /\ input = S5Input
     /\ HasErrorToken(grammar, "MODE")
     /\ ErrorToken(grammar, "MODE").next_state = "MODE")
    => ModeContextKept(input, trace)

\* the S5 input parsed to its end with the grammar whose MODE recovers into
\* MODE, the garbage line reported
BlockParsedAfterGarbage ==
    /\ pc = "returned"
    /\ input = S5Input
    /\ ErrorToken(grammar, "MODE").next_state = "MODE"
    /\ Len(diags) = 1
    /\ state = "INITIAL"

----------------------------------------------------------------------------
(* The message of a diagnostic.                                            *)

\* a descriptor as the message shows it: a literal in single quotes, a
\* kind in angle brackets
Shown(token) ==
    IF token.name[1] = "'"
    THEN ("'" \o Str(Tail(token.name))) \o "'"
    ELSE ("<" \o Str(token.name)) \o ">"

\* the items of a list separated by ", "
RECURSIVE Joined(_)
Joined(items) ==
    IF items = << >> THEN ""
    ELSE IF Len(items) = 1 THEN items[1]
    ELSE (items[1] \o ", ") \o Joined(Tail(items))

\* the message as section 8 (S6) describes it
ExpectedMessage(toks) ==
    LET visible == SelectSeq(toks, LAMBDA t : t.name # K_error)
    IN  "Expected one of these tokens: "
            \o Joined([c \in 1..Len(visible) |-> Shown(visible[c])])

\* C14: the message of every diagnostic is `Expected one of these tokens: `
\* followed by the descriptors of the state the error was met in, in table
\* order, every `error` left out, separated by exactly `, `, with no
\* leading, trailing or doubled separator wherever `error` stands.
MessageListsTokens ==
    \A k \in Errors(trace) :
        trace[k].diag.error = ExpectedMessage(tokens(grammar, trace[k].from))

----------------------------------------------------------------------------
(* Strings captured under one identifier.                                  *)

\* C15: a string or word captured under an identifier that a slot of the
\* stack already holds a string for is appended to that slot, which then
\* holds the old value, a comma and the new value; no other slot changes,
\* so no second slot is taken (two words a and b captured under t give
\* "a,b").
CaptureAppendsToSlot ==
    [][(/\ pc = "parsing"
        /\ Len(trace') = Len(trace) + 1
        /\ Last(trace').op = "match"
        /\ Last(trace').capture = "str"
        /\ Last(trace').token.identifier # NULL
        /\ \E c \in Slots :
              /\ stack[c].identifier = Last(trace').token.identifier
              /\ stack[c].type = STACK_STR)
       => \E c \in Slots :
              /\ stack[c].identifier = Last(trace').token.identifier
              /\ Last(trace').pushed =
                    [stack EXCEPT ![c].str = (@ \o ",") \o Last(trace').str]
              /\ Last(trace').exit = "no"]_vars

\* `tags a b`: the handler tag has been invoked and saw t = "a,b" in the
\* first slot and nothing in the second
TagSawBothWords ==
    /\ trace # << >>
    /\ Last(trace).call.call_identifier = "tag"
    /\ Last(trace).str = "b"
    /\ Captured(Last(trace).call.stack)[0].identifier = "t"
    /\ Captured(Last(trace).call.stack)[0].str = "a,b"
    /\ Captured(Last(trace).call.stack)[1].identifier = NULL

----------------------------------------------------------------------------
(* Quoted strings and words.                                               *)

\* a sequence of bytes with every backslash-quote pair replaced by a quote
RECURSIVE Unescaped(_)
Unescaped(cs) ==
    IF cs = << >> THEN ""
    ELSE IF Len(cs) >= 2 /\ cs[1] = BACKSLASH /\ cs[2] = QUOTE
    THEN QUOTE \o Unescaped(SubSeq(cs, 3, Len(cs)))
    ELSE cs[1] \o Unescaped(Tail(cs))

\* the cursors behind p at which a quote stands that no backslash precedes
ClosingQuotes(inp, p) ==
    {q \in (p + 1)..(Len(inp) - 1) :
        Ch(inp, q) = QUOTE /\ Ch(inp, q - 1) # BACKSLASH}

\* the first of them
ClosingQuote(inp, p) ==
    CHOOSE q \in ClosingQuotes(inp, p) : \A r \in ClosingQuotes(inp, p) : q <= r

\* C16: a string or word descriptor matched at an opening double quote that
\* has a terminating unescaped quote yields the bytes between the two
\* quotes with every backslash-quote pair replaced by a quote and every
\* other byte unchanged, pushes that value when the descriptor has an
\* identifier, and leaves the cursor just behind the closing quote.
QuotedValueUnescaped ==
    \A k \in 1..Len(trace) :
        (/\ trace[k].op = "match"
         /\ trace[k].token.name \in {K_string, K_word}
         /\ Ch(input, trace[k].at) = QUOTE
         /\ ClosingQuotes(input, trace[k].at) # {})
        => LET q == ClosingQuote(input, trace[k].at)
               value == Unescaped(SubSeq(input, trace[k].at + 2, q))
           IN  /\ trace[k].str = value
               /\ trace[k].walk = q + 1
               /\ trace[k].token.identifier # NULL =>
                     \E c \in Slots :
                        /\ trace[k].pushed[c].identifier = trace[k].token.identifier
                        /\ trace[k].pushed[c].type = STACK_STR
                        /\ trace[k].pushed[c].str = value

\* mode_binding has been invoked with the command "a taken from the quoted
\* string "\"a" (backslash, quote, a between the quotes)
EscapedQuoteCaptured ==
    /\ trace # << >>
    /\ Last(trace).token.name = K_string
    /\ Ch(input, Last(trace).at) = QUOTE
    /\ Len(input) = Last(trace).at + 5
    /\ SubSeq(input, Last(trace).at + 2, Last(trace).at + 5)
          = <<BACKSLASH, QUOTE, "a", QUOTE>>
    /\ Last(trace).walk = Last(trace).at + 5
    /\ Last(trace).call.call_identifier = "mode_binding"
    /\ Captured(Last(trace).call.stack)[1].str = Str(<<QUOTE, "a">>)

----------------------------------------------------------------------------
(* The empty input.                                                        *)

\* C17: the parse of the empty input invokes no handler and emits no
\* diagnostic, ends in INITIAL, and no step of it assigns the error flag
\* (which is false when the context came from parse_file).
EmptyInputDoesNothing ==
    /\ []((pc = "returned" /\ input = << >>)
            => /\ Calls(trace) = << >>
               /\ Errors(trace) = {}
               /\ diags = << >>
               /\ state = "INITIAL"
               /\ build = "i3" => ~has_errors)
    /\ [][(pc = "parsing" /\ input = << >>) => has_errors' = has_errors]_vars

\* the empty input parsed after another input: one iteration, the `end`
\* descriptor of INITIAL matched at the NUL
EmptyInputParsed ==
    /\ pc = "returned"
    /\ input = << >>
    /\ parses = 2
    /\ Len(trace) = 1
    /\ trace[1].token.name = K_end
    /\ walk = 1

----------------------------------------------------------------------------
(* The transition of a recovery.                                           *)

\* the indices of the trail sl[0 .. idx-1] whose state has an <error>
\* descriptor
ErrorStatesOfTrail(gr, sl, idx) ==
    {i \in 0..(idx - 1) : HasErrorToken(gr, sl[i])}

\* C18: an iteration that emits a diagnostic makes exactly one transition,
\* that of the <error> descriptor of the trail state nearest the top that
\* has one (no state below it is used); afterwards the state is that
\* descriptor's target and every slot of the stack is unused.
RecoveryTakesNearestError ==
    [][(/\ pc = "parsing"
        /\ Len(trace') = Len(trace) + 1
        /\ Last(trace').op = "error"
        /\ Last(trace').exit = "no")
       => LET e == Last(trace')
              found == ErrorStatesOfTrail(grammar, statelist, statelist_idx)
          IN  /\ Len(diags') = Len(diags) + 1
              /\ e.c \in found
              /\ \A i \in found : i <= e.c
              /\ e.token.name = K_error
              /\ \E j \in 1..Len(tokens(grammar, statelist[e.c])) :
                    tokens(grammar, statelist[e.c])[j] = e.token
              /\ state' = e.token.next_state
              /\ \A c \in Slots : stack'[c].identifier = NULL]_vars

\* `bindsym a` in a mode, no command: the error met in MODE_BINDCOMMAND has
\* been recovered by the <error> descriptor of MODE, two states below the
\* top of the trail and above INITIAL, which has one too
RecoveredIntoMode ==
    /\ pc = "parsing"
    /\ trace # << >>
    /\ Last(trace).op = "error"
    /\ Last(trace).from = "MODE_BINDCOMMAND"
    /\ Last(trace).c = 3
    /\ statelist[3] = "MODE"
    /\ state = "MODE"
    /\ HasErrorToken(grammar, statelist[0])

----------------------------------------------------------------------------
(* The order of the descriptors.                                           *)

\* the descriptors of toks that match inp at cursor w
MatchingAt(toks, inp, w) ==
    {c \in 1..Len(toks) : MatchToken(inp, w, toks[c]).matched}

\* C19: the descriptors of the current state are tried in table order and
\* the first that matches is taken, also when a later one would match a
\* longer prefix; the iteration applies the capture and the transition of
\* that descriptor and of no other.
FirstMatchingDescriptorTaken ==
    [][(/\ pc = "parsing"
        /\ Len(trace') = Len(trace) + 1
        /\ Last(trace').op = "match")
       => LET e == Last(trace')
              toks == tokens(grammar, state)
              w0 == SkipWhitespace(input, walk)
              matching == MatchingAt(toks, input, w0)
          IN  /\ e.c \in matching
              /\ \A c \in matching : e.c <= c
              /\ e.at = w0
              /\ e.token = toks[e.c]
              /\ walk' = MatchToken(input, w0, toks[e.c]).walk
              /\ e.pushed = Push(stack, toks[e.c], MatchToken(input, w0, toks[e.c])).stack
              /\ state' = IF toks[e.c].next_state = __CALL
                          THEN CallNextState(toks[e.c].call_identifier)
                          ELSE toks[e.c].next_state]_vars

\* `keys bindsymbol x`: in KEYS the literal 'bindsym' has been taken for the
\* first seven bytes of `bindsymbol`, which the <word> descriptor behind it
\* matches as a whole
ShorterLiteralTaken ==
    /\ pc = "parsing"
    /\ trace # << >>
    /\ Last(trace).op = "match"
    /\ Last(trace).from = "KEYS"
    /\ Last(trace).c = 1
    /\ Last(trace).token.name = L_bindsym
    /\ walk = Last(trace).at + 7
    /\ MatchToken(input, Last(trace).at, tokens(grammar, "KEYS")[3]).matched
    /\ MatchToken(input, Last(trace).at, tokens(grammar, "KEYS")[3]).walk > walk

----------------------------------------------------------------------------
(* The start of a parse.                                                   *)

\* C20: when parse_config begins, the first time and every later time,
\* however the parse before ended, every slot of the stack is unused, the
\* state is INITIAL and the trail is [INITIAL], of length 1.
ParseStartsClean ==
    (pc = "parsing" /\ trace = << >> /\ walk = 0)
    => /\ \A c \in Slots : stack[c].identifier = NULL
       /\ state = "INITIAL"
       /\ statelist_idx = 1
       /\ statelist[0] = "INITIAL"

----------------------------------------------------------------------------
(* Integers captured under one identifier.                                 *)

\* C21: the stack never holds two integer entries with the same identifier:
\* an integer pushed under an identifier that is already on the stack does
\* not take a second slot.
OneLongPerIdentifier ==
    \A c \in Slots : \A d \in Slots :
        (/\ stack[c].identifier # NULL
         /\ stack[c].identifier = stack[d].identifier
         /\ stack[c].type = STACK_LONG
         /\ stack[d].type = STACK_LONG)
        => c = d

----------------------------------------------------------------------------
(* The position string of a diagnostic.                                    *)

\* the first byte of the line that contains cursor w: the byte after the
\* most recent CR or LF before w, or the start of the input
RECURSIVE LineStart(_, _)
LineStart(inp, w) ==
    IF w <= 0 \/ Ch(inp, w - 1) \in {LF, CR} THEN w
    ELSE LineStart(inp, w - 1)

\* the underline of the bytes from p to the end of the line, the cursor
\* being at w
RECURSIVE Underline(_, _, _)
Underline(inp, p, w) ==
    IF Ch(inp, p) \in {LF, CR, NUL} THEN ""
    ELSE (IF p >= w THEN "^" ELSE IF Ch(inp, p) = TAB THEN TAB ELSE SP)
             \o Underline(inp, p + 1, w)

\* C22: the errorposition of every diagnostic covers the line that holds
\* the cursor at the failure, and no other: one character per byte of the
\* line, a tab for a tab and a space for any other byte before the cursor,
\* `^` from the cursor on; also when the cursor is on the LF or CR that
\* ends the line (the terminator itself may or may not be underlined).
PositionCoversCursorLine ==
    \A k \in Errors(trace) :
        LET w == trace[k].at
            line == Underline(input, LineStart(input, w), w)
        IN  \/ trace[k].diag.errorposition = line
            \/ /\ Ch(input, w) \in {LF, CR}
               /\ trace[k].diag.errorposition = line \o "^"

\* C22, for the failures with the cursor not on a line terminator
PositionCoversCursorLineInLine ==
    \A k \in Errors(trace) :
        Ch(input, trace[k].at) \notin {LF, CR}
        => trace[k].diag.errorposition
              = Underline(input, LineStart(input, trace[k].at), trace[k].at)

----------------------------------------------------------------------------
(* The `end` descriptor.                                                   *)

\* the indices of the `end` descriptors of toks
EndDescriptors(toks) == {j \in 1..Len(toks) : toks[j].name = K_end}

\* An iteration in which an `end` descriptor was tried and not taken: the
\* iteration took a later descriptor or the error path.
EndRefused(toks, e) ==
    \E j \in EndDescriptors(toks) : e.op = "error" \/ e.c > j

\* the part of C23 that does not depend on the byte under the cursor:
\* `end` is taken only at NUL, CR or LF, is refused only elsewhere, and a
\* match increments the line counter
EndMatchesAtLineEnd(e) ==
    /\ (e.op = "match" /\ e.token.name = K_end)
         => /\ Ch(input, e.at) \in {NUL, CR, LF}
            /\ linecnt' = linecnt + 1
    /\ EndRefused(tokens(grammar, state), e)
         => Ch(input, SkipWhitespace(input, walk)) \notin {NUL, CR, LF}

\* C23 as stated: the `end` descriptor matches if and only if the cursor is
\* at NUL, CR or LF; a match at CR or LF advances the cursor by one byte, a
\* match at NUL does not advance it; every match increments the line
\* counter.
EndStaysAtNul ==
    [][(pc = "parsing" /\ Len(trace') = Len(trace) + 1)
       => /\ EndMatchesAtLineEnd(Last(trace'))
          /\ (Last(trace').op = "match" /\ Last(trace').token.name = K_end)
               => walk' = IF Ch(input, Last(trace').at) = NUL
                          THEN Last(trace').at
                          ELSE Last(trace').at + 1]_vars

\* C23, amended: the same, but every match advances the cursor by one
\* byte, the match at NUL too (to len + 1, which ends the main loop).
EndAdvancesByOne ==
    [][(pc = "parsing" /\ Len(trace') = Len(trace) + 1)
       => /\ EndMatchesAtLineEnd(Last(trace'))
          /\ (Last(trace').op = "match" /\ Last(trace').token.name = K_end)
               => walk' = Last(trace').at + 1]_vars

\* `end` has been matched at the NUL behind an LF that it had matched before
EndMatchedAtLfAndNul ==
    /\ pc = "parsing"
    /\ Len(trace) >= 2
    /\ Last(trace).token.name = K_end
    /\ Last(trace).at = Len(input)
    /\ walk = Len(input) + 1
    /\ trace[Len(trace) - 1].token.name = K_end
    /\ Ch(input, trace[Len(trace) - 1].at) = LF
    /\ trace[Len(trace) - 1].walk = trace[Len(trace) - 1].at + 1
    /\ linecnt >= 3

----------------------------------------------------------------------------
(* The `number` descriptor.                                                *)

\* the end of the run of decimal digits that starts at p
RECURSIVE DigitsEnd(_, _)
DigitsEnd(inp, p) == IF IsDigit(Ch(inp, p)) THEN DigitsEnd(inp, p + 1) ELSE p

\* the first digit at or behind p that is not a leading zero (q at most)
RECURSIVE SignificantFrom(_, _, _)
SignificantFrom(inp, p, q) ==
    IF p < q /\ Ch(inp, p) = "0" THEN SignificantFrom(inp, p + 1, q) ELSE p

\* the value of the digits at p..(q - 1), at most nine of them
RECURSIVE DigitsValue(_, _, _)
DigitsValue(inp, p, q) ==
    IF q <= p THEN 0
    ELSE 10 * DigitsValue(inp, p, q - 1) + DigitValue(Ch(inp, q - 1))

\* The decimal integer with sign that stands at cursor w, behind white
\* space: [digits, end, fits, value], value being meant when it fits a
\* long.  A number of ten significant digits is split into its first nine
\* and its last to compare it with the ends of the range.
NumberText(inp, w) ==
    LET p0 == SkipSpace(inp, w)
        neg == Ch(inp, p0) = "-"
        p1 == IF Ch(inp, p0) \in {"-", "+"} THEN p0 + 1 ELSE p0
        q == DigitsEnd(inp, p1)
        s == SignificantFrom(inp, p1, q)
        n == q - s
        high == IF n = 10 THEN DigitsValue(inp, s, q - 1) ELSE 0
        last == IF n = 10 THEN DigitValue(Ch(inp, q - 1)) ELSE 0
        fits == \/ n <= 9
                \/ /\ n = 10
                   /\ \/ high < LONG_MAX \div 10
                      \/ /\ high = LONG_MAX \div 10
                         /\ last <= (IF neg THEN 8 ELSE 7)
    IN  [digits |-> q - p1, end |-> q, fits |-> fits,
         value |-> IF ~fits THEN 0
                   ELSE IF n = 10
                   THEN (IF neg THEN (-(10 * high)) - last ELSE 10 * high + last)
                   ELSE (IF neg THEN -DigitsValue(inp, s, q)
                         ELSE DigitsValue(inp, s, q))]

\* C24: the `number` descriptor matches if and only if at least one decimal
\* digit is consumed and the value fits a signed long; without a match
\* nothing is pushed, the cursor is unchanged and the next descriptor (or
\* the error reporter) goes on from it; on a match the captured value is
\* the signed value of the consumed text and the cursor is behind it.
\* (`number` is the first descriptor of the states that hold it.)
NumberMatchesDigitsInRange ==
    [][(/\ pc = "parsing"
        /\ Len(trace') = Len(trace) + 1
        /\ tokens(grammar, state)[1].name = K_number)
       => LET e == Last(trace')
              w0 == SkipWhitespace(input, walk)
              t == NumberText(input, w0)
              accepted == t.digits >= 1 /\ t.fits
          IN  /\ accepted <=> (e.op = "match" /\ e.c = 1)
              /\ accepted =>
                    /\ e.num = t.value
                    /\ walk' = t.end
                    /\ \E c \in Slots :
                          /\ stack[c].identifier = NULL
                          /\ e.pushed = [stack EXCEPT ![c] =
                                [identifier |-> tokens(grammar, state)[1].identifier,
                                 type |-> STACK_LONG, str |-> NULL,
                                 num |-> t.value]]
              /\ ~accepted =>
                    /\ e.at = w0
                    /\ e.capture # "long"
                    /\ e.pushed = stack \/ e.capture = "str"]_vars

\* `nums 2147483648`: the digits do not fit a long, `number` and `end` have
\* been refused and the <word> behind them has taken the digits
OverflowLeftToWord ==
    /\ pc = "parsing"
    /\ trace # << >>
    /\ Last(trace).from = "NUMS"
    /\ Last(trace).op = "match"
    /\ Last(trace).c = 3
    /\ Last(trace).token.name = K_word
    /\ Last(trace).str = "2147483648"
    /\ Last(trace).at = 5

----------------------------------------------------------------------------
(* The current state and the trail.                                        *)

\* C25: between the transitions of a parse, before the first and after the
\* last, the current state is the top of the trail,
\* state = statelist[statelist_idx - 1], and statelist[0] is INITIAL: the
\* recovery walk, which starts at statelist_idx - 1, starts at the state
\* the failure occurred in.
StateIsTopOfTrail ==
    pc \in {"start", "parsing", "returned"} =>
        /\ statelist_idx \in 1..StatelistSize
        /\ statelist[statelist_idx - 1] = state
        /\ statelist[0] = "INITIAL"
        /\ \A k \in Errors(trace) : trace[k].c <= trace[k].idx - 1

\* mode_binding has been invoked and has led back to MODE, which the trail
\* holds at index 3 below the two states of the binding
BackInModeAfterCall ==
    /\ pc = "parsing"
    /\ trace # << >>
    /\ Last(trace).call.call_identifier = "mode_binding"
    /\ Last(trace).from = "MODE_BINDCOMMAND"
    /\ state = "MODE"
    /\ statelist_idx = 4
    /\ statelist[3] = "MODE"
    /\ statelist[4] = "MODE_BINDING"

----------------------------------------------------------------------------
(* Descriptors that do not match.                                          *)

\* C26: a descriptor that does not match leaves the cursor where it was:
\* the descriptor that is taken in an iteration, or the error reporter if
\* none is, sees the cursor that the first descriptor saw, the one behind
\* the spaces and tabs at which the iteration began; also after a string
\* or word descriptor has been tried on an empty quoted string.
FailedDescriptorKeepsCursor ==
    \A k \in 1..Len(trace) :
        trace[k].at = SkipWhitespace(input, trace[k].start)

----------------------------------------------------------------------------
(* Tokens and line terminators.                                            *)

\* whether a CR or LF stands at one of the cursors from..(to - 1)
TerminatorBetween(inp, from, to) ==
    \E p \in from..(to - 1) : Ch(inp, p) \in {LF, CR}

\* C27: a `number` match never moves the cursor across a line terminator:
\* with the cursor on a CR or LF (behind the spaces and tabs skipped before
\* the token) the descriptor does not match, and no CR or LF lies between
\* the cursor at which an iteration began and the end of a number it took.
NumberStaysOnLine ==
    \A k \in 1..Len(trace) :
        (trace[k].op = "match" /\ trace[k].token.name = K_number)
        => /\ Ch(input, trace[k].at) \notin {LF, CR}
           /\ ~TerminatorBetween(input, trace[k].start, trace[k].walk)

\* C28: a quoted string or word whose closing quote is missing on its line
\* takes no byte of the following lines: the cursor behind a string or word
\* matched at an opening quote is not beyond the first CR or LF that
\* follows the quote.
QuotedStaysOnLine ==
    \A k \in 1..Len(trace) :
        (/\ trace[k].op = "match"
         /\ trace[k].token.name \in {K_string, K_word}
         /\ Ch(input, trace[k].at) = QUOTE)
        => ~TerminatorBetween(input, trace[k].at, trace[k].walk - 1)

----------------------------------------------------------------------------
(* The line counter.                                                       *)

\* the number of line ends before cursor p: every LF, and every CR that no
\* LF follows (CR LF is one line end, complete at its LF)
RECURSIVE LineEndsBefore(_, _)
LineEndsBefore(inp, p) ==
    IF p <= 0 THEN 0
    ELSE (IF \/ Ch(inp, p - 1) = LF
             \/ Ch(inp, p - 1) = CR /\ Ch(inp, p) # LF
          THEN 1 ELSE 0) + LineEndsBefore(inp, p - 1)

\* a history in which line ends were passed by `end`, by `line` and by the
\* skip of a recovery only: no number, string or word reached across one
OnlyLineSteps(inp, tr) ==
    \A k \in 1..Len(tr) :
        (tr[k].op = "match" /\ tr[k].token.name \notin {K_end, K_line})
        => ~TerminatorBetween(inp, tr[k].start, tr[k].walk)

\* C29: when a diagnostic is emitted, the line counter (the N of the log's
\* `Line N`) is the 1-based number of the line that holds the cursor, one
\* more than the number of line ends before the cursor, with LF and with
\* CR LF line ends, after any sequence of `end`, `line` and recovery steps.
LineCounterInStep ==
    (/\ trace # << >>
     /\ Last(trace).op = "error"
     /\ OnlyLineSteps(input, trace))
    => linecnt = 1 + LineEndsBefore(input, Last(trace).at)

\* C29, for the inputs without a CR
LineCounterInStepWithLf ==
    (/\ trace # << >>
     /\ Last(trace).op = "error"
     /\ OnlyLineSteps(input, trace)
     /\ \A p \in 0..Len(input) : Ch(input, p) # CR)
    => linecnt = 1 + LineEndsBefore(input, Last(trace).at)

----------------------------------------------------------------------------
(* The reads of the error reporter.                                        *)

\* C30: every read that start_of_line does for a diagnostic, for the
\* offending line and for the context lines before it, is at an index of
\* the input buffer, 0..len(input); also for an error on the first line.
ReporterReadsInsideInput ==
    (trace # << >> /\ Last(trace).op = "error")
    => \A i \in ReporterReads(input, Last(trace).at, linecnt) :
          i >= 0 /\ i <= Len(input)

----------------------------------------------------------------------------
(* Looking up captured values.                                             *)

\* the identifiers of the grammars, and one that no descriptor has
LookupIdentifiers == {"num", "t", "key", "command", "name", "criteria"}

\* the used slots of stk are stk[0..k-1] for some k, and the lookup of
\* every identifier a slot holds ends at a slot holding it
UsedSlotsArePrefix(stk) ==
    /\ \A c \in Slots : \A d \in 0..(c - 1) :
          stk[c].identifier # NULL => stk[d].identifier # NULL
    /\ \A c \in Slots :
          stk[c].identifier # NULL =>
             /\ LookupSlot(stk, stk[c].identifier) <= c
             /\ stk[LookupSlot(stk, stk[c].identifier)].identifier = stk[c].identifier

OnStack(stk, identifier) == \E c \in Slots : stk[c].identifier = identifier

\* C31 as stated, of a stack: the used slots are a prefix, the lookups find
\* every identifier that is on the stack, get_string returns absent exactly
\* when the identifier is not on the stack and get_long returns 0 exactly
\* when it is not.
LookupsExact(stk) ==
    /\ UsedSlotsArePrefix(stk)
    /\ \A id \in LookupIdentifiers :
          /\ NULL \in get_string(stk, id) <=> ~OnStack(stk, id)
          /\ 0 \in get_long(stk, id) <=> ~OnStack(stk, id)

\* C31, amended, of a stack: get_long also returns 0 for an identifier
\* whose captured integer is 0 (and get_string absent for it).
LookupsExactButForZero(stk) ==
    /\ UsedSlotsArePrefix(stk)
    /\ \A id \in LookupIdentifiers :
          LET zero == /\ OnStack(stk, id)
                      /\ stk[LookupSlot(stk, id)].type = STACK_LONG
                      /\ stk[LookupSlot(stk, id)].num = 0
          IN  /\ NULL \in get_string(stk, id) <=> (~OnStack(stk, id) \/ zero)
              /\ 0 \in get_long(stk, id) <=> (~OnStack(stk, id) \/ zero)

\* C31 as stated: in every state, for the stack, for the stack between the
\* push and the transition of the last iteration, and for the stack a
\* handler invoked by it could read.
StackLookupsExact ==
    /\ LookupsExact(stack)
    /\ trace # << >> =>
          /\ LookupsExact(Last(trace).pushed)
          /\ LookupsExact(Last(trace).call.stack)

\* C31, amended: the same, with 0 returned by get_long also for a captured
\* integer that is 0.
StackLookupsExactButForZero ==
    /\ LookupsExactButForZero(stack)
    /\ trace # << >> =>
          /\ LookupsExactButForZero(Last(trace).pushed)
          /\ LookupsExactButForZero(Last(trace).call.stack)

\* `nums 0x`: the number 0 and a word are on the stack, in slots 0 and 1;
\* get_string finds the word, get_long returns 0 for the number as it does
\* for an identifier that is not on the stack
ZeroFoundAsZero ==
    /\ pc = "parsing"
    /\ stack[0].identifier = "num"
    /\ stack[1].identifier = "t"
    /\ stack[2].identifier = NULL
    /\ OnStack(stack, "num")
    /\ get_long(stack, "num") = {0}
    /\ get_string(stack, "t") = {"x"}
    /\ ~OnStack(stack, "key")
    /\ get_long(stack, "key") = {0}
    /\ get_string(stack, "key") = {NULL}
====
